---- MODULE Spec2Model ----
(***************************************************************************)
(* Meditation reminder bot (Olyame/tg-meditation).                         *)
(*                                                                         *)
(* Two variants live in the repository:                                    *)
(*   - src/main.py: per-recipient reminder times; a scheduler job runs     *)
(*     send_meditation_reminder every minute over the module-level set     *)
(*     subscribed_users and the dict user_reminder_times.                  *)
(*   - src/tg-meditation/main.py: one daily job per chat in the job queue. *)
(*                                                                         *)
(* All coroutines run on one asyncio event loop: a handler runs without    *)
(* interruption up to its next await.  The registry mutation of every      *)
(* command handler precedes its first await, so a command is one step.     *)
(* The tick awaits inside the loop over subscribed_users (send_message),   *)
(* so it is split at that await and command handlers may run in between.   *)
(*                                                                         *)
(* subscribed_users is a Python set of int chat ids.  An int hashes to     *)
(* itself and the ids used here are smaller than the table (8 slots, no    *)
(* resize below 5 used slots), so id r lives in slot r, the iterator walks *)
(* the slots in ascending order, discard leaves a dummy in the slot and a  *)
(* later add of the same id re-uses it.  The iterator remembers the size   *)
(* of the set at its creation and every next() first compares it with the  *)
(* current size, raising RuntimeError("Set changed size during iteration") *)
(* when they differ.                                                       *)
(***************************************************************************)
EXTENDS Integers, FiniteSets, Sequences, TLC

\* ---------------------------------------------------------------- bounds
NumRecipients == 2
Recipients == 1..NumRecipients

\* ------------------------------------------------------------- constants
DEFAULT_HOUR == 8
DEFAULT_MINUTE == 55

\* Offsets (hours) of the host's local time from Europe/Berlin time.
HostOffsets == {0, -1}

\* Minutes (Berlin wall clock) at which the modelled ticks fire.
BerlinTimes == {<<8, 55>>, <<9, 55>>, <<14, 0>>, <<14, 5>>}

\* The argument of /remind is context.args[0].split(':'), a sequence of
\* parts; a part is text int() turns into a number, or text int() rejects.
\* The empty sequence stands for a command without arguments.
P(n) == [num |-> TRUE, val |-> n]
BadPart == [num |-> FALSE, val |-> 0]

\* "H:M" and "H" arguments, by their numbers.
HmArgs == {<<14, 0>>, <<24, 0>>, <<14, 60>>}
HArgs == {14, 24}

\* no argument, "abc", "H:M", "H"
RemindArgs ==
    {<<>>, <<BadPart>>}
    \cup {<<P(t[1]), P(t[2])>> : t \in HmArgs}
    \cup {<<P(h)>> : h \in HArgs}

\* The same with a second valid time, negative numbers and more malformed
\* text: "9:20", "-1:0", "14:-1", "14:", ":0", "14:0:7", "9:20:15"
WideArgs ==
    RemindArgs
    \cup {<<P(9), P(20)>>, <<P(-1), P(0)>>, <<P(14), P(-1)>>,
          <<P(14), BadPart>>, <<BadPart, P(0)>>,
          <<P(14), P(0), P(7)>>, <<P(9), P(20), P(15)>>}

\* The reminder text; src/main.py and src/tg-meditation/main.py define the
\* same text.
MEDITATION_MESSAGE == "MEDITATION_MESSAGE"

\* Number of entries of QUOTES.
NumQuotes == 5

NoTime == [hour |-> -1, minute |-> -1]
NoOne == 0

VARIABLES
    subscribed_users,     \* set of chat ids
    user_reminder_times,  \* dict chat id -> [hour, minute]
    hostOffset,           \* host local time minus Berlin time, in hours
    berlin_now,           \* Berlin wall clock <<h, m>> of the running/last tick
    pc,                   \* "idle" | "sending" (tick suspended in send_message)
    current_hour,
    current_minute,
    si_used,              \* set size remembered by the iterator
    si_pos,               \* next slot the iterator looks at
    chat_id,              \* loop variable of the tick
    outcome,              \* how the last tick ended: "none" | "returned" | "RuntimeError"
    attempts,             \* send_message calls per recipient in the running/last tick
    due,                  \* subscribed and eligible at tick start, not removed since
    disturbed,            \* handlers that ran while the tick was suspended:
                          \* "none" | "startstop" (only start/stop) | "other"
    failedInTick,         \* a send_message of the running/last tick raised
    last,                 \* the last step: [op, who, rep, reply, time, arg]
    regBefore,            \* the registry before the last step
    \* src/tg-meditation/main.py
    job_queue,            \* chat id -> number of jobs named meditation_<chat id>
    running,              \* chat id -> job runs of today's tick still in send_message
    tg_attempts,          \* chat id -> send_message calls made by today's tick
    tg_last,              \* the last step: [op, who, rep, reply]
    tg_before,            \* job_queue before the last step
    tg_cmd                \* chat id -> its last start/stop command, or "none"

vars == <<subscribed_users, user_reminder_times, hostOffset, berlin_now, pc,
          current_hour, current_minute, si_used, si_pos, chat_id, outcome,
          attempts, due, disturbed, failedInTick, last, regBefore>>

tgVars == <<job_queue, running, tg_attempts, tg_last, tg_before, tg_cmd>>

allVars == <<vars, tgVars>>

tickVars == <<berlin_now, pc, current_hour, current_minute, si_used, si_pos,
              chat_id, outcome, attempts, failedInTick>>

Registry == [subs |-> subscribed_users, times |-> user_reminder_times]

\* ------------------------------------------------------------ registry
\* Faulty assignment: an existing entry is kept.
DictSetKeep(d, k, v) == [x \in (DOMAIN d) \cup {k} |-> IF x \in DOMAIN d THEN d[x] ELSE v]

\* dict assignment d[k] = v
DictSet(d, k, v) == [x \in (DOMAIN d) \cup {k} |-> IF x = k THEN v ELSE d[x]]

\* Faulty deletion: the whole dict is cleared.
DictClear(d, k) == <<>>

\* del d[k]
DictDel(d, k) == [x \in (DOMAIN d) \ {k} |-> d[x]]

\* Target time of a recipient: its custom time, or the default 8:55.
EffectiveTime(times, r) ==
    IF r \in DOMAIN times
    THEN [hour |-> times[r].hour, minute |-> times[r].minute]
    ELSE [hour |-> DEFAULT_HOUR, minute |-> DEFAULT_MINUTE]

\* Faulty comparison: the minute is not compared.
TimeMatchesHourOnly(h, m, t) == h = t.hour

\* The comparison that makes a recipient eligible in a tick.
TimeMatches(h, m, t) == h = t.hour /\ m = t.minute

\* datetime.now(): naive local time of the host.
HostHour(bh) == (bh + 24 + hostOffset) % 24

Min(S) == CHOOSE x \in S : \A y \in S : x <= y

\* The locals of send_meditation_reminder exist while the coroutine runs;
\* once it has ended they are gone.
TickLocalsKept ==
    IF pc = "sending"
    THEN UNCHANGED tickVars
    ELSE /\ berlin_now' = <<0, 0>>
         /\ pc' = "idle"
         /\ current_hour' = 0
         /\ current_minute' = 0
         /\ si_used' = 0
         /\ si_pos' = 0
         /\ chat_id' = NoOne
         /\ outcome' = "none"
         /\ attempts' = [r \in Recipients |-> 0]
         /\ failedInTick' = FALSE

\* History bookkeeping of a command of recipient r.
Note(op, r, kind, t, a) ==
    /\ last' = [op |-> op, who |-> r,
                rep |-> (op \in {"start", "stop"} /\ last.op = op /\ last.who = r),
                reply |-> kind, time |-> t, arg |-> a]
    /\ regBefore' = Registry
    /\ disturbed' =
           IF pc # "sending" THEN "none"
           ELSE IF op \in {"start", "stop"} /\ disturbed # "other" THEN "startstop"
           ELSE "other"
    /\ TickLocalsKept
    /\ UNCHANGED tgVars

\* ------------------------------------------------------------ commands
\* Faulty add: an id that is present is taken out.
SubscribeToggle(S, r) == IF r \in S THEN S \ {r} ELSE S \cup {r}

\* set.add
Subscribe(S, r) == S \cup {r}

\* Faulty discard: nothing is taken out.
UnsubscribeNothing(S, r) == S

\* set.discard
Unsubscribe(S, r) == S \ {r}

start(r) ==
    /\ subscribed_users' = Subscribe(subscribed_users, r)
    /\ Note("start", r, "welcome", NoTime, <<>>)
    /\ UNCHANGED <<user_reminder_times, hostOffset>>
    /\ due' = IF pc = "sending" THEN due ELSE {}

stop(r) ==
    /\ subscribed_users' = Unsubscribe(subscribed_users, r)
    /\ Note("stop", r, "unsubscribed", NoTime, <<>>)
    /\ due' = IF pc = "sending" THEN due \ {r} ELSE {}
    /\ UNCHANGED <<user_reminder_times, hostOffset>>

\* Faulty reply: the reminder text.
TestReplyReminder == MEDITATION_MESSAGE

\* The text send_test replies with.
TestReply == "test_message"

send_test(r) ==
    /\ Note("test", r, TestReply, NoTime, <<>>)
    /\ UNCHANGED <<subscribed_users, user_reminder_times, hostOffset>>
    /\ due' = IF pc = "sending" THEN due ELSE {}

\* Result of set_reminder on the dict: the reply and the new dict.
\* With a colon the first two parts are read and further parts ignored;
\* without one the text is the hour and the minute is 0.
SetReminderResult(times, r, a) ==
    IF a = <<>> THEN [reply |-> "usage", time |-> NoTime, times |-> times]
    ELSE
    LET colon == Len(a) >= 2
        parsed == IF colon THEN a[1].num /\ a[2].num ELSE a[1].num
        hour == a[1].val
        minute == IF colon THEN a[2].val ELSE 0
    IN  IF ~parsed
        THEN [reply |-> "format_error", time |-> NoTime, times |-> times]
        ELSE IF hour < 0 \/ hour > 23
        THEN [reply |-> "hour_error", time |-> NoTime, times |-> times]
        ELSE IF minute < 0 \/ minute > 59
        THEN [reply |-> "minute_error", time |-> NoTime, times |-> times]
        ELSE [reply |-> "set",
              time |-> [hour |-> hour, minute |-> minute],
              times |-> DictSet(times, r, [hour |-> hour, minute |-> minute])]

set_reminder(r, a) ==
    LET res == SetReminderResult(user_reminder_times, r, a) IN
    /\ user_reminder_times' = res.times
    /\ Note("remind", r, res.reply, res.time, a)
    /\ UNCHANGED <<subscribed_users, hostOffset>>
    /\ due' = IF pc = "sending" THEN due ELSE {}

my_reminder(r) ==
    /\ IF r \in DOMAIN user_reminder_times
       THEN Note("myremind", r, "custom", user_reminder_times[r], <<>>)
       ELSE Note("myremind", r, "default", NoTime, <<>>)
    /\ UNCHANGED <<subscribed_users, user_reminder_times, hostOffset>>
    /\ due' = IF pc = "sending" THEN due ELSE {}

default_reminder(r) ==
    /\ user_reminder_times' =
           IF r \in DOMAIN user_reminder_times
           THEN DictDel(user_reminder_times, r)
           ELSE user_reminder_times
    /\ Note("defaultremind", r, "reset", NoTime, <<>>)
    /\ UNCHANGED <<subscribed_users, hostOffset>>
    /\ due' = IF pc = "sending" THEN due ELSE {}

\* ---------------------------------------------------------------- tick
\* Faulty selection: every chat with a matching time, subscribed or not.
EligibleAnyone(S, times, h, m) ==
    {r \in Recipients : TimeMatches(h, m, EffectiveTime(times, r))}

\* The recipients of set S that are eligible at h:m.
Eligible(S, times, h, m) ==
    {r \in S : TimeMatches(h, m, EffectiveTime(times, r))}

\* The for loop from the iterator's next() up to the next await or the end.
\* Recipients that are not eligible are passed without an await, so the
\* size check is decided at the first next().
Loop(S, times, used, pos, h, m) ==
    IF Cardinality(S) # used
    THEN [pc |-> "idle", outcome |-> "RuntimeError", chat_id |-> NoOne, si_pos |-> pos]
    ELSE LET cand == {r \in Eligible(S, times, h, m) : r >= pos} IN
         IF cand = {}
         THEN [pc |-> "idle", outcome |-> "returned", chat_id |-> NoOne, si_pos |-> pos]
         ELSE [pc |-> "sending", outcome |-> "none", chat_id |-> Min(cand),
               si_pos |-> Min(cand) + 1]

\* Continue the loop and record the send_message call it reaches, if any.
Continue(S, times, used, pos, h, m, att) ==
    LET l == Loop(S, times, used, pos, h, m) IN
    /\ pc' = l.pc
    /\ outcome' = l.outcome
    /\ chat_id' = l.chat_id
    /\ si_pos' = l.si_pos
    /\ attempts' = IF l.pc = "sending"
                   THEN [att EXCEPT ![l.chat_id] = @ + 1]
                   ELSE att

\* The scheduler starts send_meditation_reminder at Berlin time bh:bm.
TickBegin(bh, bm) ==
    /\ pc = "idle"
    /\ berlin_now' = <<bh, bm>>
    /\ current_hour' = HostHour(bh)
    /\ current_minute' = bm
    /\ si_used' = Cardinality(subscribed_users)
    /\ Continue(subscribed_users, user_reminder_times,
                Cardinality(subscribed_users), 0,
                HostHour(bh), bm, [r \in Recipients |-> 0])
    /\ due' = Eligible(subscribed_users, user_reminder_times, HostHour(bh), bm)
    /\ disturbed' = "none"
    /\ failedInTick' = FALSE
    /\ last' = [op |-> "tick", who |-> NoOne, rep |-> FALSE,
                reply |-> "none", time |-> NoTime, arg |-> <<>>]
    /\ regBefore' = Registry
    /\ UNCHANGED <<subscribed_users, user_reminder_times, hostOffset, tgVars>>

\* send_message returned: log and go on with the loop.
DeliverOk ==
    /\ pc = "sending"
    /\ Continue(subscribed_users, user_reminder_times, si_used, si_pos,
                current_hour, current_minute, attempts)
    /\ last' = [op |-> "sent", who |-> chat_id, rep |-> FALSE,
                reply |-> "none", time |-> NoTime, arg |-> <<>>]
    /\ regBefore' = Registry
    /\ UNCHANGED <<subscribed_users, user_reminder_times, hostOffset, berlin_now,
                   current_hour, current_minute, si_used, due, disturbed,
                   failedInTick, tgVars>>

\* Faulty except branch: the failure is only logged.
EvictNothing(S, c) == S

\* The recipient is dropped by the except branch.
Evict(S, c) == S \ {c}

\* Faulty except branch: the time override is deleted with the subscription.
OnFailureDropTime(reg, c) ==
    [subs |-> reg.subs \ {c}, times |-> [x \in (DOMAIN reg.times) \ {c} |-> reg.times[x]]]

\* The registry after the except branch: only the set is written.
OnFailure(reg, c) == [subs |-> Evict(reg.subs, c), times |-> reg.times]

\* send_message raised: log, discard the recipient, go on with the loop.
DeliverFail ==
    /\ pc = "sending"
    /\ subscribed_users' = OnFailure(Registry, chat_id).subs
    /\ user_reminder_times' = OnFailure(Registry, chat_id).times
    /\ Continue(OnFailure(Registry, chat_id).subs, OnFailure(Registry, chat_id).times,
                si_used, si_pos, current_hour, current_minute, attempts)
    /\ failedInTick' = TRUE
    /\ due' = due \ {chat_id}
    /\ last' = [op |-> "failed", who |-> chat_id, rep |-> FALSE,
                reply |-> "none", time |-> NoTime, arg |-> <<>>]
    /\ regBefore' = Registry
    /\ UNCHANGED <<hostOffset, berlin_now,
                   current_hour, current_minute, si_used, disturbed, tgVars>>

\* ------------------------------------------- src/tg-meditation/main.py
\* Faulty removal: the jobs are left in the queue.
RemoveJobsNothing(q, c) == q

\* job.remove() for every job of the chat's name.
RemoveJobs(q, c) == [q EXCEPT ![c] = 0]

\* Faulty scheduling: the existing jobs of the chat are kept.
schedule_daily_reminder_keep(q, c) == [q EXCEPT ![c] = @ + 1]

\* Remove the existing jobs of the chat, then run_daily one new job.
schedule_daily_reminder(q, c) == [RemoveJobs(q, c) EXCEPT ![c] = @ + 1]

TgNote(op, c, kind, i) ==
    /\ tg_last' = [op |-> op, who |-> c,
                   rep |-> (op \in {"start", "stop"} /\ tg_last.op = op /\ tg_last.who = c),
                   reply |-> kind, quote |-> i]
    /\ tg_before' = job_queue
    /\ tg_cmd' = IF op \in {"start", "stop"} THEN [tg_cmd EXCEPT ![c] = op] ELSE tg_cmd
    /\ UNCHANGED vars

tg_start(c) ==
    /\ job_queue' = schedule_daily_reminder(job_queue, c)
    /\ TgNote("start", c, "welcome", 0)
    /\ UNCHANGED <<running, tg_attempts>>

tg_stop(c) ==
    /\ job_queue' = RemoveJobs(job_queue, c)
    /\ TgNote("stop", c, "unsubscribed", 0)
    /\ UNCHANGED <<running, tg_attempts>>

tg_meditate(c) ==
    /\ TgNote("meditate", c, MEDITATION_MESSAGE, 0)
    /\ UNCHANGED <<job_queue, running, tg_attempts>>

tg_quote(c, i) ==
    /\ TgNote("quote", c, "quote", i)
    /\ UNCHANGED <<job_queue, running, tg_attempts>>

tg_status(c) ==
    /\ IF job_queue[c] > 0
       THEN TgNote("status", c, "subscribed", 0)
       ELSE TgNote("status", c, "not_subscribed", 0)
    /\ UNCHANGED <<job_queue, running, tg_attempts>>

\* 9:20 Berlin time: the job queue starts the callback of every job; each
\* calls send_message and waits for it.
DailyTick ==
    /\ \A c \in Recipients : running[c] = 0
    /\ running' = job_queue
    /\ tg_attempts' = job_queue
    /\ tg_last' = [op |-> "tick", who |-> NoOne, rep |-> FALSE, reply |-> "none", quote |-> 0]
    /\ tg_before' = job_queue
    /\ UNCHANGED <<job_queue, tg_cmd, vars>>

\* Faulty callback: a failed delivery removes the jobs of the chat.
JobsAfterSendEvict(q, c, ok) == IF ok THEN q ELSE [q EXCEPT ![c] = 0]

\* The job queue after the callback: both branches only log.
JobsAfterSend(q, c, ok) == q

\* send_message of one job run returns or raises; either way it is only logged.
tg_send_meditation_reminder(c, ok) ==
    /\ running[c] > 0
    /\ running' = [running EXCEPT ![c] = @ - 1]
    /\ job_queue' = JobsAfterSend(job_queue, c, ok)
    /\ tg_last' = [op |-> IF ok THEN "sent" ELSE "failed", who |-> c,
                   rep |-> FALSE, reply |-> "none", quote |-> 0]
    /\ tg_before' = job_queue
    /\ UNCHANGED <<tg_attempts, tg_cmd, vars>>

\* The job queue of a new process.  PicklePersistence stores user_data,
\* chat_data, bot_data, callback data and conversations; the handlers write
\* none of them, jobs are not among them, and main schedules no job.
JobsAfterRestart(q) == [c \in Recipients |-> 0]

\* The process is stopped and main runs again.
Restart ==
    /\ job_queue' = JobsAfterRestart(job_queue)
    /\ running' = [c \in Recipients |-> 0]
    /\ tg_attempts' = [c \in Recipients |-> 0]
    /\ tg_last' = [op |-> "restart", who |-> NoOne, rep |-> FALSE,
                   reply |-> "none", quote |-> 0]
    /\ tg_before' = job_queue
    /\ UNCHANGED <<tg_cmd, vars>>

\* ----------------------------------------------------------------- spec
Init ==
    /\ subscribed_users = {}
    /\ user_reminder_times = <<>>
    /\ hostOffset \in HostOffsets
    /\ berlin_now = <<0, 0>>
    /\ pc = "idle"
    /\ current_hour = 0
    /\ current_minute = 0
    /\ si_used = 0
    /\ si_pos = 0
    /\ chat_id = NoOne
    /\ outcome = "none"
    /\ attempts = [r \in Recipients |-> 0]
    /\ due = {}
    /\ disturbed = "none"
    /\ failedInTick = FALSE
    /\ last = [op |-> "none", who |-> NoOne, rep |-> FALSE,
               reply |-> "none", time |-> NoTime, arg |-> <<>>]
    /\ regBefore = [subs |-> {}, times |-> <<>>]
    /\ job_queue = [c \in Recipients |-> 0]
    /\ running = [c \in Recipients |-> 0]
    /\ tg_attempts = [c \in Recipients |-> 0]
    /\ tg_last = [op |-> "none", who |-> NoOne, rep |-> FALSE, reply |-> "none", quote |-> 0]
    /\ tg_before = [c \in Recipients |-> 0]
    /\ tg_cmd = [c \in Recipients |-> "none"]

\* src/main.py
Next ==
    \/ \E r \in Recipients : start(r)
    \/ \E r \in Recipients : stop(r)
    \/ \E r \in Recipients : send_test(r)
    \/ \E r \in Recipients : \E a \in RemindArgs : set_reminder(r, a)
    \/ \E r \in Recipients : my_reminder(r)
    \/ \E r \in Recipients : default_reminder(r)
    \/ \E t \in BerlinTimes : TickBegin(t[1], t[2])
    \/ DeliverOk
    \/ DeliverFail

Spec == Init /\ [][Next]_allVars

\* src/main.py, the command handlers alone, with more /remind arguments.
\* The tick never writes user_reminder_times and no handler reads the
\* locals of the tick.
NextTimes ==
    \/ \E r \in Recipients : start(r)
    \/ \E r \in Recipients : stop(r)
    \/ \E r \in Recipients : \E a \in WideArgs : set_reminder(r, a)
    \/ \E r \in Recipients : my_reminder(r)
    \/ \E r \in Recipients : default_reminder(r)

SpecTimes == Init /\ [][NextTimes]_allVars

\* The subscription and test commands of both programs, side by side.
NextTest ==
    \/ \E r \in Recipients : start(r)
    \/ \E r \in Recipients : stop(r)
    \/ \E r \in Recipients : send_test(r)
    \/ \E c \in Recipients : tg_start(c)
    \/ \E c \in Recipients : tg_stop(c)
    \/ \E c \in Recipients : tg_meditate(c)

SpecTest == Init /\ [][NextTest]_allVars

\* src/tg-meditation/main.py
NextFixed ==
    \/ \E c \in Recipients : tg_start(c)
    \/ \E c \in Recipients : tg_stop(c)
    \/ \E c \in Recipients : tg_meditate(c)
    \/ \E c \in Recipients : \E i \in 1..NumQuotes : tg_quote(c, i)
    \/ \E c \in Recipients : tg_status(c)
    \/ DailyTick
    \/ \E c \in Recipients : \E ok \in BOOLEAN : tg_send_meditation_reminder(c, ok)

SpecFixed == Init /\ [][NextFixed]_allVars

\* src/tg-meditation/main.py with restarts of the process.
NextRestart ==
    \/ \E c \in Recipients : tg_start(c)
    \/ \E c \in Recipients : tg_stop(c)
    \/ \E c \in Recipients : tg_meditate(c)
    \/ \E c \in Recipients : \E i \in 1..NumQuotes : tg_quote(c, i)
    \/ \E c \in Recipients : tg_status(c)
    \/ DailyTick
    \/ \E c \in Recipients : \E ok \in BOOLEAN : tg_send_meditation_reminder(c, ok)
    \/ Restart

SpecRestart == Init /\ [][NextRestart]_allVars

\* --------------------------------------------------------------- claims
\* The tick has just ended: its locals still hold what it did.
TickEnded == pc = "idle" /\ last.op \in {"tick", "sent", "failed"}

\* The target time of r read off the dict, with the default 8:55.
TargetOf(r) ==
    IF r \in DOMAIN user_reminder_times THEN user_reminder_times[r]
    ELSE [hour |-> 8, minute |-> 55]

\* C1: in a tick in which deliveries fail (and no command handler runs),
\* every subscriber that was eligible at the start of the tick and is still
\* subscribed gets its delivery attempt; a failure skips nobody.
C1_FailureSkipsNobody ==
    (TickEnded /\ failedInTick /\ disturbed = "none")
        => \A r \in due : attempts[r] >= 1

\* C2: a tick in which a delivery fails (and no command handler runs) never
\* ends with an exception.
C2_TickNeverRaisesOnFailure ==
    (failedInTick /\ disturbed = "none") => outcome # "RuntimeError"

\* C3: after stop(r), and after r is evicted by a failed delivery, r is in
\* neither subscribed_users nor user_reminder_times.
C3_RemovalDropsOverride ==
    last.op \in {"stop", "failed"}
        => /\ last.who \notin subscribed_users
           /\ last.who \notin DOMAIN user_reminder_times

\* C4 (as stated): when a scheduled delivery to C fails, C remains
\* subscribed and the registry is the same as before.
C4_FailureKeepsSubscription ==
    last.op = "failed"
        => /\ Registry = regBefore
           /\ (last.who \in regBefore.subs => last.who \in subscribed_users)

\* C4 (amended): when a scheduled delivery to C fails, C is removed from
\* subscribed_users; the other subscriptions and all time overrides are the
\* same as before.
C4_FailureEvicts ==
    last.op = "failed"
        => /\ last.who \notin subscribed_users
           /\ subscribed_users = regBefore.subs \ {last.who}
           /\ user_reminder_times = regBefore.times

\* A delivery to a subscribed recipient with a time override failed while
\* another recipient is subscribed.
C4_Witness ==
    /\ last.op = "failed"
    /\ last.who \in regBefore.subs
    /\ last.who \in DOMAIN user_reminder_times
    /\ subscribed_users # {}

\* C5: the hour:minute a tick compares against the target times is the
\* current hour:minute in Europe/Berlin, whatever the host's timezone.
C5_NowIsBerlinTime ==
    (\E r \in Recipients : attempts[r] > 0)
        => <<current_hour, current_minute>> = berlin_now

\* C6: no recipient gets more than one attempt in a tick, and a tick in
\* which no delivery fails (and no command handler runs) returns normally
\* having attempted exactly the subscribed recipients whose target time
\* (override, else 8:55) is the tick's hour:minute.
C6_ExactlyTheEligibleOnce ==
    /\ \A r \in Recipients : attempts[r] <= 1
    /\ (TickEnded /\ ~failedInTick /\ disturbed = "none")
        => /\ outcome = "returned"
           /\ {r \in Recipients : attempts[r] = 1}
                = {r \in subscribed_users :
                     TargetOf(r) = [hour |-> current_hour, minute |-> current_minute]}

\* A tick at the override time of B has attempted B and not A, who is
\* subscribed on the default time.
C6_Witness ==
    /\ TickEnded /\ ~failedInTick /\ disturbed = "none"
    /\ \E a, b \in subscribed_users :
          /\ a \notin DOMAIN user_reminder_times
          /\ b \in DOMAIN user_reminder_times
          /\ attempts[a] = 0
          /\ attempts[b] = 1

\* C7: when only start/stop handlers run while the tick is suspended in a
\* delivery attempt (and no delivery fails), the tick returns normally and
\* every recipient subscribed and eligible at tick start that stayed
\* subscribed gets its attempt.
C7_MidTickCommandsAreSafe ==
    (TickEnded /\ disturbed = "startstop" /\ ~failedInTick)
        => /\ outcome = "returned"
           /\ \A r \in due : attempts[r] >= 1

\* C8: after start(r) r is subscribed, after stop(r) r is not, and both
\* commands answer with their confirmation whatever the state before.
C8_StartStopEffect ==
    /\ last.op = "start"
         => (last.who \in subscribed_users /\ last.reply = "welcome")
    /\ last.op = "stop"
         => (last.who \notin subscribed_users /\ last.reply = "unsubscribed")

\* stop(r) has run for an r that was subscribed.
C8_Witness ==
    /\ last.op = "stop"
    /\ last.who \in regBefore.subs
    /\ ~last.rep

\* C9: the job queue never holds more than one daily job per chat, no chat
\* gets more than one reminder per daily tick, and a start(c) right after a
\* start(c) leaves the job queue as it was.
C9_OneJobPerChat ==
    /\ \A c \in Recipients : job_queue[c] <= 1 /\ tg_attempts[c] <= 1
    /\ (tg_last.op = "start" /\ tg_last.rep) => job_queue = tg_before

\* start(c) has run twice in a row.
C9_Witness ==
    /\ tg_last.op = "start"
    /\ tg_last.rep
    /\ job_queue[tg_last.who] = 1

\* C10: a start(r) right after a start(r), and a stop(r) right after a
\* stop(r), leaves subscribed_users and user_reminder_times as they were.
C10_Idempotent ==
    (last.op \in {"start", "stop"} /\ last.rep) => Registry = regBefore

\* start(r) has run twice in a row for an r that has a time override.
C10_Witness ==
    /\ last.op = "start"
    /\ last.rep
    /\ last.who \in DOMAIN user_reminder_times

\* The hour and minute an argument of the documented forms "H:M" and "H"
\* asks for.
AskedTime(a) == [hour |-> a[1].val, minute |-> IF Len(a) = 2 THEN a[2].val ELSE 0]

\* The argument has one of the documented forms and its numbers are in range.
ValidArg(a) ==
    /\ Len(a) \in {1, 2}
    /\ \A i \in 1..Len(a) : a[i].num
    /\ AskedTime(a).hour \in 0..23
    /\ AskedTime(a).minute \in 0..59

\* C11: after set_reminder(r) with a valid hour and minute the effective
\* time of r, the one the dispatcher matches against, is that time; after
\* default_reminder(r) it is 8:55; my_reminder reports the effective time.
C11_EffectiveTimeFollowsCommands ==
    /\ (last.op = "remind" /\ ValidArg(last.arg))
         => /\ last.reply = "set"
            /\ EffectiveTime(user_reminder_times, last.who) = AskedTime(last.arg)
    /\ last.op = "defaultremind"
         => /\ last.who \notin DOMAIN user_reminder_times
            /\ EffectiveTime(user_reminder_times, last.who) = [hour |-> 8, minute |-> 55]
    /\ last.op = "myremind"
         => EffectiveTime(user_reminder_times, last.who)
              = IF last.reply = "custom" THEN last.time ELSE [hour |-> 8, minute |-> 55]

\* set_reminder(r) has replaced a different earlier override of r.
C11_Witness ==
    /\ last.op = "remind"
    /\ ValidArg(last.arg)
    /\ last.who \in DOMAIN regBefore.times
    /\ regBefore.times[last.who] # user_reminder_times[last.who]

\* C12: set_reminder(r) with an hour or minute out of range, or with an
\* argument that is not of the form "H:M" or "H", answers with an error and
\* leaves the registry as it was.
C12_InvalidArgRejected ==
    (last.op = "remind" /\ last.arg # <<>> /\ ~ValidArg(last.arg))
        => /\ last.reply \in {"format_error", "hour_error", "minute_error"}
           /\ Registry = regBefore

\* C13 (as stated): when a scheduled delivery to a chat fails, no daily job
\* of that chat remains.
C13_FailureDropsJob ==
    tg_last.op = "failed" => job_queue[tg_last.who] = 0

\* C13 (amended): a failed scheduled delivery is only logged; the job queue
\* is the same as before, so a chat that had its daily job keeps it.
C13_FailureKeepsJob ==
    tg_last.op = "failed" => job_queue = tg_before

\* A delivery to a chat failed and the chat still has its daily job.
C13_Witness ==
    /\ tg_last.op = "failed"
    /\ job_queue[tg_last.who] = 1

\* C14: status(c) reports "subscribed" iff the last start/stop command of c
\* was start; a chat whose last command was stop has no job and gets no
\* delivery from a daily tick; stop answers with its confirmation also when
\* there is no job.
C14_StatusFollowsCommands ==
    /\ tg_last.op = "status"
         => (tg_last.reply = "subscribed" <=> tg_cmd[tg_last.who] = "start")
    /\ \A c \in Recipients : tg_cmd[c] = "stop" => job_queue[c] = 0
    /\ tg_last.op = "tick"
         => \A c \in Recipients : tg_cmd[c] # "start" => tg_attempts[c] = 0
    /\ tg_last.op = "stop" => tg_last.reply = "unsubscribed"

\* A daily tick has delivered to a subscribed chat and not to a chat that
\* had subscribed and then stopped.
C14_Witness ==
    /\ tg_last.op = "tick"
    /\ \E c, d \in Recipients :
          /\ tg_cmd[c] = "start" /\ tg_attempts[c] = 1
          /\ tg_cmd[d] = "stop" /\ tg_attempts[d] = 0

\* C15: the chats that have a daily job after a restart of the process are
\* the chats that had one before it.
C15_JobsSurviveRestart ==
    tg_last.op = "restart"
        => {c \in Recipients : job_queue[c] > 0} = {c \in Recipients : tg_before[c] > 0}

\* C16 (as stated): /test of src/main.py and /meditate of
\* src/tg-meditation/main.py both deliver the reminder text to the sender
\* and leave the registry unchanged.
C16_TestDeliversReminderText ==
    /\ last.op = "test"
         => (last.reply = "MEDITATION_MESSAGE" /\ Registry = regBefore)
    /\ tg_last.op = "meditate"
         => (tg_last.reply = "MEDITATION_MESSAGE" /\ job_queue = tg_before)

\* C16 (amended): /meditate delivers the reminder text, /test replies with
\* its own test message; both leave the registry unchanged.
C16_TestCommandsReply ==
    /\ last.op = "test"
         => (last.reply = "test_message" /\ Registry = regBefore)
    /\ tg_last.op = "meditate"
         => (tg_last.reply = "MEDITATION_MESSAGE" /\ job_queue = tg_before)

\* Both commands have run for a sender that is not subscribed, while
\* another recipient is.
C16_Witness ==
    /\ last.op = "test"
    /\ last.who \notin subscribed_users
    /\ subscribed_users # {}
    /\ tg_last.op = "meditate"
    /\ job_queue[tg_last.who] = 0
    /\ \E c \in Recipients : job_queue[c] = 1

\* C17: a tick step in which no delivery fails leaves subscribed_users and
\* user_reminder_times as they were; a failed delivery adds no recipient
\* and leaves every time override as it was.
C17_TickFrame ==
    /\ last.op \in {"tick", "sent"} => Registry = regBefore
    /\ last.op = "failed"
         => /\ subscribed_users \subseteq regBefore.subs
            /\ user_reminder_times = regBefore.times

\* A tick has ended with a failed delivery to a recipient that has an
\* override, after a delivery of the same tick that went through.
C17_Witness ==
    /\ last.op = "failed"
    /\ last.who \in DOMAIN user_reminder_times
    /\ \E r \in Recipients \ {last.who} : attempts[r] = 1

\* C18: a scheduled delivery attempt is made only to a recipient that is in
\* subscribed_users at the moment of the attempt.
C18_OnlySubscribersAttempted ==
    (pc = "sending" /\ last.op \in {"tick", "sent", "failed"})
        => /\ chat_id \in subscribed_users
           /\ attempts[chat_id] >= 1

\* An attempt is being made while a recipient that is not subscribed has a
\* stored override equal to the tick's minute and got no attempt.
C18_Witness ==
    /\ pc = "sending"
    /\ last.op \in {"tick", "sent", "failed"}
    /\ \E r \in Recipients \ subscribed_users :
          /\ r \in DOMAIN user_reminder_times
          /\ user_reminder_times[r] = [hour |-> current_hour, minute |-> current_minute]
          /\ attempts[r] = 0

\* C19: set_reminder, my_reminder and default_reminder of r never change
\* subscribed_users nor the override of another recipient, and my_reminder
\* changes nothing.
C19_TimeCommandsFrame ==
    /\ last.op \in {"remind", "myremind", "defaultremind"}
         => /\ subscribed_users = regBefore.subs
            /\ \A q \in Recipients \ {last.who} :
                  /\ q \in DOMAIN user_reminder_times <=> q \in DOMAIN regBefore.times
                  /\ q \in DOMAIN user_reminder_times
                       => user_reminder_times[q] = regBefore.times[q]
    /\ last.op = "myremind" => Registry = regBefore

\* default_reminder(r) has removed the override of an r that is not
\* subscribed, while another recipient has an override.
C19_Witness ==
    /\ last.op = "defaultremind"
    /\ last.who \notin subscribed_users
    /\ last.who \in DOMAIN regBefore.times
    /\ \E q \in Recipients \ {last.who} : q \in DOMAIN user_reminder_times

====
